---- MODULE Spec2Model ----
(***************************************************************************)
(* A model of ciadmin's resource collection (ciadmin/resources/resources.py)*)
(* and of its diff engine (ciadmin/diff.py).                                *)
(*                                                                          *)
(* Python strings are sequences of character codes, compared as Python      *)
(* compares them (lexicographically, code point by code point).             *)
(***************************************************************************)
EXTENDS Integers, Sequences, FiniteSets, TLC

VARIABLES
    pc,            \* position of the collection's life: "new", "ready", "failed"
    in_resources,  \* the iterable of resources handed to Resources(...)
    in_managed,    \* the patterns handed to Resources(...)
    resources,     \* Resources.resources, a SortedKeyList keyed by id
    managed,       \* Resources.managed, a MatchList
    op,            \* the operation called last
    arg,           \* its argument
    raised,        \* the exception it raised, NoError when it returned
    returned,      \* the value it returned
    styling,       \* t.does_styling: whether the terminal t emits escape codes
    diff_generated,  \* the generated collection handed to show_diff
    diff_current     \* the current collection handed to show_diff

vars == <<pc, in_resources, in_managed, resources, managed, op, arg, raised,
          returned, styling, diff_generated, diff_current>>

----------------------------------------------------------------------------
(* Bounds *)

MaxInput == 4       \* longest iterable handed to the constructor
MaxPatterns == 2    \* longest pattern list handed to the constructor
MaxResources == 3   \* add() is not called on a collection this large
MaxManaged == 2     \* manage() is not called on a MatchList this large

----------------------------------------------------------------------------
(* Strings *)

RECURSIVE StrLess(_, _)
StrLess(a, b) ==
    IF a = <<>> THEN b # <<>>
    ELSE IF b = <<>> THEN FALSE
    ELSE IF a[1] # b[1] THEN a[1] < b[1]
    ELSE StrLess(Tail(a), Tail(b))

StrLeq(a, b) == a = b \/ StrLess(a, b)

Range(s) == {s[i] : i \in DOMAIN s}

\* list.insert of x into an ascending list, after the elements not above it
RECURSIVE InsertSorted(_, _)
InsertSorted(s, x) ==
    IF s = <<>> THEN <<x>>
    ELSE IF StrLess(x, s[1]) THEN <<x>> \o s
    ELSE <<s[1]>> \o InsertSorted(Tail(s), x)

\* sorted(list of strings)
RECURSIVE sorted(_)
sorted(s) ==
    IF s = <<>> THEN <<>>
    ELSE InsertSorted(sorted(SubSeq(s, 1, Len(s) - 1)), s[Len(s)])

\* sorted(set of strings)
RECURSIVE sorted_set(_)
sorted_set(S) ==
    IF S = {} THEN <<>>
    ELSE LET m == CHOOSE x \in S : \A y \in S : StrLeq(x, y)
         IN  <<m>> \o sorted_set(S \ {m})

\* the names and values the model's resources are made of
Worker == <<87, 111, 114, 107, 101, 114>>
Secret == <<83, 101, 99, 114, 101, 116>>
f_id == <<105, 100>>
f_count == <<99, 111, 117, 110, 116>>
f_description == <<100, 101, 115, 99, 114, 105, 112, 116, 105, 111, 110>>
f_name == <<110, 97, 109, 101>>
f_value == <<118, 97, 108, 117, 101>>
k_kind == <<107, 105, 110, 100>>
s_w1 == <<119, 49>>
s_w2 == <<119, 50>>
s_3 == <<51>>
s_5 == <<53>>
s_a == <<97>>
s_b == <<98>>
s_empty == <<>>

----------------------------------------------------------------------------
(* Resource *)

\* the subclasses of Resource and their attr.ib fields, in declaration order
KindFields(kind) ==
    IF kind = Worker THEN <<f_id, f_count, f_description>>
    ELSE IF kind = Secret THEN <<f_name, f_value>>
    ELSE <<>>

\* Resource._kind_classes
_kind_classes == {Worker, Secret}

\* Resource.kind
kind(r) == r.kind

\* Resource.id: '{}={}'.format(kind, first field)
id(r) == kind(r) \o <<61>> \o r.vals[1]

\* attr.asdict(r): field name -> value
asdict(r) ==
    LET fields == KindFields(r.kind)
    IN  [k \in Range(fields) |-> r.vals[CHOOSE i \in DOMAIN fields : fields[i] = k]]

\* Resource.to_json without the d['kind'] = kind assignment
Resource_to_json_without_kind(r) == asdict(r)

\* Resource.to_json: the fields, then d['kind'] = kind
Resource_to_json(r) ==
    LET d == asdict(r)
    IN  [k \in DOMAIN d \cup {k_kind} |-> IF k = k_kind THEN kind(r) ELSE d[k]]

KeyError == [msg |-> "KeyError", ids |-> <<>>]
TypeError == [msg |-> "TypeError", ids |-> <<>>]
NoError == [msg |-> "", ids |-> <<>>]
None == <<>>

\* Resource.from_json: pop 'kind', look the class up, call it with the rest
Resource_from_json(json) ==
    IF k_kind \notin DOMAIN json THEN [raised |-> KeyError, value |-> None]
    ELSE LET knd == json[k_kind]
             rest == DOMAIN json \ {k_kind}
             fields == KindFields(knd)
         IN  IF knd \notin _kind_classes THEN [raised |-> KeyError, value |-> None]
             ELSE IF rest # Range(fields) THEN [raised |-> TypeError, value |-> None]
             ELSE [raised |-> NoError,
                   value |-> [kind |-> knd,
                              vals |-> [i \in DOMAIN fields |-> json[fields[i]]]]]

\* Resource.evolve: attr.evolve(self, **args), args a function name -> value
evolve(r, args) ==
    LET fields == KindFields(r.kind)
    IN  IF ~(DOMAIN args \subseteq Range(fields))
        THEN [raised |-> TypeError, value |-> None]
        ELSE [raised |-> NoError,
              value |-> [kind |-> r.kind,
                         vals |-> [i \in DOMAIN fields |->
                                     IF fields[i] \in DOMAIN args
                                     THEN args[fields[i]] ELSE r.vals[i]]]]

----------------------------------------------------------------------------
(* MatchList: the patterns that say which ids are managed *)

\* a pattern ending in '*' matches the ids it prefixes, any other the id it equals
PatternMatches(pattern, i) ==
    IF pattern # <<>> /\ pattern[Len(pattern)] = 42
    THEN LET n == Len(pattern) - 1
         IN  Len(i) >= n /\ SubSeq(i, 1, n) = SubSeq(pattern, 1, n)
    ELSE pattern = i

MatchList(patterns) == patterns

MatchList_add(ml, pattern) == Append(ml, pattern)

MatchList_matches(ml, i) == \E k \in DOMAIN ml : PatternMatches(ml[k], i)

----------------------------------------------------------------------------
(* Resources *)

\* SortedKeyList.add with key=lambda r: r.id: insert right of the equal keys
RECURSIVE SortedKeyList_add(_, _)
SortedKeyList_add(list, r) ==
    IF list = <<>> THEN <<r>>
    ELSE IF StrLess(id(r), id(list[1])) THEN <<r>> \o list
    ELSE <<list[1]>> \o SortedKeyList_add(Tail(list), r)

\* SortedKeyList(resources, key=lambda r: r.id): a stable sort by id
RECURSIVE SortedKeyList(_)
SortedKeyList(rs) ==
    IF rs = <<>> THEN <<>>
    ELSE SortedKeyList_add(SortedKeyList(SubSeq(rs, 1, Len(rs) - 1)), rs[Len(rs)])

\* Resources.is_managed
is_managed(ms, i) == MatchList_matches(ms, i)

\* [x for x in s if P(x)] over the ids of the collection
RECURSIVE dupes_of(_)
dupes_of(ids) ==
    IF Len(ids) < 2 THEN <<>>
    ELSE LET n == Len(ids)
             front == dupes_of(SubSeq(ids, 1, n - 1))
         IN  IF ids[n - 1] = ids[n] THEN Append(front, ids[n - 1]) ELSE front

\* the unmanaged ids, given up after the first
RECURSIVE unmanaged_first_only(_, _)
unmanaged_first_only(ids, ms) ==
    IF ids = <<>> THEN <<>>
    ELSE IF ~is_managed(ms, ids[1]) THEN <<ids[1]>>
    ELSE unmanaged_first_only(Tail(ids), ms)

RECURSIVE unmanaged_of(_, _)
unmanaged_of(ids, ms) ==
    IF ids = <<>> THEN <<>>
    ELSE LET n == Len(ids)
             front == unmanaged_of(SubSeq(ids, 1, n - 1), ms)
         IN  IF ~is_managed(ms, ids[n]) THEN Append(front, ids[n]) ELSE front

\* Resources._verify with sorted(dupes) for sorted(set(dupes))
_verify_repeating_dupes(rs, ms) ==
    LET ids == [i \in DOMAIN rs |-> id(rs[i])]
        dupes == dupes_of(ids)
        unique_dupes == sorted(dupes)
        unmanaged == sorted(unmanaged_of(ids, ms))
    IN  IF dupes # <<>>
        THEN [msg |-> "duplicate resources: ", ids |-> unique_dupes]
        ELSE IF unmanaged # <<>>
        THEN [msg |-> "unmanaged resources: ", ids |-> unmanaged]
        ELSE NoError

\* Resources._verify: the RuntimeError it raises, NoError when it returns
_verify(rs, ms) ==
    LET ids == [i \in DOMAIN rs |-> id(rs[i])]
        dupes == dupes_of(ids)
        unique_dupes == sorted_set(Range(dupes))
        unmanaged == sorted(unmanaged_of(ids, ms))
    IN  IF dupes # <<>>
        THEN [msg |-> "duplicate resources: ", ids |-> unique_dupes]
        ELSE IF unmanaged # <<>>
        THEN [msg |-> "unmanaged resources: ", ids |-> unmanaged]
        ELSE NoError

\* Resources(resources, managed): the converters, then __attrs_post_init__
Resources(rs, ms) ==
    LET list == SortedKeyList(rs)
        ml == MatchList(ms)
    IN  [raised |-> _verify(list, ml), resources |-> list, managed |-> ml]

\* Resources.add without the is_managed check
Resources_add_unchecked(rs, ms, r) ==
    [raised |-> NoError, resources |-> SortedKeyList_add(rs, r)]

\* Resources.add: the exception raised and the list afterwards
Resources_add(rs, ms, r) ==
    IF ~is_managed(ms, id(r))
    THEN [raised |-> [msg |-> "unmanaged resource: ", ids |-> <<id(r)>>],
          resources |-> rs]
    ELSE [raised |-> NoError, resources |-> SortedKeyList_add(rs, r)]

\* Resources.manage
Resources_manage(ms, pattern) == MatchList_add(ms, pattern)

\* Resources.to_json
Resources_to_json(rs, ms) ==
    LET e == _verify(rs, ms)
    IN  IF e # NoError THEN [raised |-> e, value |-> None]
        ELSE [raised |-> NoError,
              value |-> [resources |-> [i \in DOMAIN rs |-> Resource_to_json(rs[i])],
                         managed |-> ms]]

\* Resources.from_json
Resources_from_json(json) ==
    LET made == [i \in DOMAIN json.resources |-> Resource_from_json(json.resources[i])]
        bad == {i \in DOMAIN made : made[i].raised # NoError}
    IN  IF bad # {}
        THEN [raised |-> made[CHOOSE i \in bad : \A j \in bad : i <= j].raised,
              resources |-> <<>>, managed |-> <<>>]
        ELSE Resources([i \in DOMAIN made |-> made[i].value], json.managed)

----------------------------------------------------------------------------
(* The terminal t = blessings.Terminal() and the text helpers *)

t_normal == IF styling THEN <<27, 40, 66, 27, 91, 109>> ELSE <<>>
t_underline == IF styling THEN <<27, 91, 52, 109>> ELSE <<>>
t_bold == IF styling THEN <<27, 91, 49, 109>> ELSE <<>>
t_red(s) == IF styling THEN <<27, 91, 51, 49, 109>> \o s \o t_normal ELSE s
t_green(s) == IF styling THEN <<27, 91, 51, 50, 109>> \o s \o t_normal ELSE s
t_yellow(s) == IF styling THEN <<27, 91, 51, 51, 109>> \o s \o t_normal ELSE s

\* ciadmin.util.strip_ansi: drop the escape sequences (ESC [ .. letter, ESC ( x)
RECURSIVE strip_ansi(_)
RECURSIVE SkipCsi(_)
SkipCsi(s) ==
    IF s = <<>> THEN <<>>
    ELSE IF s[1] >= 64 /\ s[1] <= 126 THEN Tail(s)
    ELSE SkipCsi(Tail(s))
strip_ansi(s) ==
    IF s = <<>> THEN <<>>
    ELSE IF s[1] = 27 /\ Len(s) >= 2 /\ s[2] = 91 THEN strip_ansi(SkipCsi(SubSeq(s, 3, Len(s))))
    ELSE IF s[1] = 27 /\ Len(s) >= 3 /\ s[2] = 40 THEN strip_ansi(SubSeq(s, 4, Len(s)))
    ELSE <<s[1]>> \o strip_ansi(Tail(s))

IsSpace(c) == c \in {9, 10, 11, 12, 13, 32}

\* str.rstrip
RECURSIVE rstrip(_)
rstrip(s) ==
    IF s # <<>> /\ IsSpace(s[Len(s)]) THEN rstrip(SubSeq(s, 1, Len(s) - 1)) ELSE s

\* str.split('\n'): the lines of a string
RECURSIVE split_lines(_)
split_lines(s) ==
    IF \A i \in DOMAIN s : s[i] # 10 THEN <<s>>
    ELSE LET k == CHOOSE i \in DOMAIN s : s[i] = 10 /\ \A j \in 1..(i - 1) : s[j] # 10
         IN  <<SubSeq(s, 1, k - 1)>> \o split_lines(SubSeq(s, k + 1, Len(s)))

\* textwrap.indent, line by line: whitespace-only lines are left alone
indent(lines, prefix) ==
    [i \in DOMAIN lines |->
        IF \E j \in DOMAIN lines[i] : ~IsSpace(lines[i][j])
        THEN prefix \o lines[i] ELSE lines[i]]

\* ', '.join
RECURSIVE join_comma(_)
join_comma(ss) ==
    IF ss = <<>> THEN <<>>
    ELSE IF Len(ss) = 1 THEN ss[1]
    ELSE ss[1] \o <<44, 32>> \o join_comma(Tail(ss))

\* str(int)
RECURSIVE ToDec(_)
ToDec(n) == IF n < 10 THEN <<48 + n>> ELSE ToDec(n \div 10) \o <<48 + (n % 10)>>

\* int(digits)
RECURSIVE ToInt(_)
ToInt(d) == IF d = <<>> THEN 0 ELSE 10 * ToInt(SubSeq(d, 1, Len(d) - 1)) + (d[Len(d)] - 48)

----------------------------------------------------------------------------
(* Rendering; a rendered text is the sequence of its lines *)

\* the lines one field of Resource.__str__ appends
field_lines(fname, val) ==
    LET label == <<32, 32>> \o t_bold \o fname \o t_normal \o <<58>>
        formatted == val
    IN  IF \E i \in DOMAIN formatted : formatted[i] = 10
        THEN <<label>> \o indent(split_lines(formatted), <<32, 32, 32, 32>>)
        ELSE <<label \o <<32>> \o formatted>>

RECURSIVE fields_lines(_, _)
fields_lines(fields, vals) ==
    IF fields = <<>> THEN <<>>
    ELSE field_lines(fields[1], vals[1]) \o fields_lines(Tail(fields), Tail(vals))

\* Resource.__str__
Resource_str(r) ==
    <<t_underline \o id(r) \o t_normal \o <<58>>>> \o fields_lines(KindFields(r.kind), r.vals)

\* '\n\n'.join(str(r) for r in self)
RECURSIVE join_resources(_)
join_resources(rs) ==
    IF rs = <<>> THEN <<<<>>>>
    ELSE IF Len(rs) = 1 THEN Resource_str(rs[1])
    ELSE Resource_str(rs[1]) \o <<<<>>>> \o join_resources(Tail(rs))

s_managed == <<109, 97, 110, 97, 103, 101, 100, 58>>
s_resources == <<114, 101, 115, 111, 117, 114, 99, 101, 115, 58>>

\* Resources.__str__
Resources_str(rs, ms) ==
    LET e == _verify(rs, ms)
    IN  IF e # NoError THEN [raised |-> e, value |-> None]
        ELSE [raised |-> NoError,
              value |-> <<s_managed>>
                        \o (IF ms = <<>> THEN <<<<>>>>
                            ELSE [i \in DOMAIN ms |-> <<32, 32, 45, 32>> \o ms[i]])
                        \o <<<<>>, s_resources>>
                        \o indent(join_resources(rs), <<32, 32>>)]

----------------------------------------------------------------------------
(* ciadmin.diff.id_diff *)

\* {r.id: r for r in collection}: a later resource replaces an earlier one
dict_by_id(rs) ==
    [i \in {id(rs[k]) : k \in DOMAIN rs} |->
        rs[CHOOSE k \in DOMAIN rs : id(rs[k]) = i /\ \A j \in DOMAIN rs : id(rs[j]) = i => j <= k]]

\* id_diff's loop body without the 'if c == g: continue'
id_diff_line_without_continue(i, generated_resources, current_resources) ==
    IF i \in DOMAIN generated_resources
    THEN IF i \in DOMAIN current_resources
         THEN LET g == generated_resources[i]
                  c == current_resources[i]
                  cd == asdict(c)
                  gd == asdict(g)
                  fields == IF kind(c) = kind(g)
                            THEN sorted_set({k \in DOMAIN cd : cd[k] # gd[k]})
                            ELSE <<k_kind>>
              IN  <<t_yellow(<<33, 32>> \o i
                             \o <<32, 40, 99, 104, 97, 110, 103, 101, 100, 58, 32>>
                             \o join_comma(fields) \o <<41>>)>>
         ELSE <<t_green(<<43, 32>> \o i)>>
    ELSE <<t_red(<<45, 32>> \o i)>>

\* id_diff's loop body reporting an id only in current as it reports one only
\* in generated
id_diff_line_always_added(i, generated_resources, current_resources) ==
    IF i \in DOMAIN generated_resources /\ i \in DOMAIN current_resources
    THEN LET g == generated_resources[i]
             c == current_resources[i]
             cd == asdict(c)
             gd == asdict(g)
             fields == IF kind(c) = kind(g)
                       THEN sorted_set({k \in DOMAIN cd : cd[k] # gd[k]})
                       ELSE <<k_kind>>
         IN  IF c = g THEN <<>>
             ELSE <<t_yellow(<<33, 32>> \o i
                             \o <<32, 40, 99, 104, 97, 110, 103, 101, 100, 58, 32>>
                             \o join_comma(fields) \o <<41>>)>>
    ELSE <<t_green(<<43, 32>> \o i)>>

\* the lines one id contributes to rv
id_diff_line(i, generated_resources, current_resources) ==
    IF i \in DOMAIN generated_resources
    THEN IF i \in DOMAIN current_resources
         THEN LET g == generated_resources[i]
                  c == current_resources[i]
                  cd == asdict(c)
                  gd == asdict(g)
                  fields == IF kind(c) = kind(g)
                            THEN sorted_set({k \in DOMAIN cd : cd[k] # gd[k]})
                            ELSE <<k_kind>>
              IN  IF c = g THEN <<>>
                  ELSE <<t_yellow(<<33, 32>> \o i
                                  \o <<32, 40, 99, 104, 97, 110, 103, 101, 100, 58, 32>>
                                  \o join_comma(fields) \o <<41>>)>>
         ELSE <<t_green(<<43, 32>> \o i)>>
    ELSE <<t_red(<<45, 32>> \o i)>>

RECURSIVE id_diff_lines(_, _, _)
id_diff_lines(all_resources, generated_resources, current_resources) ==
    IF all_resources = <<>> THEN <<>>
    ELSE id_diff_line(all_resources[1], generated_resources, current_resources)
         \o id_diff_lines(Tail(all_resources), generated_resources, current_resources)

\* id_diff(generated, current), the lines of the string it returns
id_diff(generated, current) ==
    LET generated_resources == dict_by_id(generated.resources)
        current_resources == dict_by_id(current.resources)
        all_resources == sorted_set(DOMAIN generated_resources \cup DOMAIN current_resources)
    IN  id_diff_lines(all_resources, generated_resources, current_resources)

----------------------------------------------------------------------------
(* difflib.unified_diff, as ciadmin.diff.textual_diff calls it.  Indexes    *)
(* are Python's: 0-based, ranges half open.  No line is junk: autojunk      *)
(* starts at sequences of 200 lines.                                        *)

Max(x, y) == IF x >= y THEN x ELSE y
Min(x, y) == IF x <= y THEN x ELSE y

\* the length of the common run of a[i:ahi] and b[j:bhi]
RECURSIVE run_length(_, _, _, _, _, _)
run_length(a, b, i, j, ahi, bhi) ==
    IF i < ahi /\ j < bhi /\ a[i + 1] = b[j + 1]
    THEN 1 + run_length(a, b, i + 1, j + 1, ahi, bhi)
    ELSE 0

\* the largest number of a non-empty set
max_of(sizes) == CHOOSE k \in sizes : \A m \in sizes : m <= k

\* the block of length bestsize that starts earliest in a and, of those,
\* earliest in b; run[i, j] is the length of the common run at (i, j)
earliest_block(run, bestsize, alo, blo) ==
    IF bestsize = 0 THEN <<alo, blo, 0>>
    ELSE LET starts == {p \in DOMAIN run : run[p] = bestsize}
             best == CHOOSE p \in starts :
                        \A q \in starts : p[1] < q[1] \/ (p[1] = q[1] /\ p[2] <= q[2])
         IN  <<best[1], best[2], bestsize>>

longest_block(run, alo, blo) ==
    IF DOMAIN run = {} THEN <<alo, blo, 0>>
    ELSE CHOOSE x \in {earliest_block(run, bestsize, alo, blo) :
                          bestsize \in {max_of({run[p] : p \in DOMAIN run})}} : TRUE

\* SequenceMatcher.find_longest_match: the longest block, of those the one
\* starting earliest in a, of those the one starting earliest in b
find_longest_match(a, b, alo, ahi, blo, bhi) ==
    CHOOSE x \in {longest_block(run, alo, blo) :
                     run \in {[p \in (alo..(ahi - 1)) \X (blo..(bhi - 1)) |->
                                 run_length(a, b, p[1], p[2], ahi, bhi)]}} : TRUE

\* the blocks to the left of block x, x, and the blocks to its right
RECURSIVE matching_blocks(_, _, _, _, _, _)
blocks_around(a, b, alo, ahi, blo, bhi, x) ==
    LET i == x[1]
        j == x[2]
        k == x[3]
    IN  IF k = 0 THEN <<>>
        ELSE (IF alo < i /\ blo < j THEN matching_blocks(a, b, alo, i, blo, j) ELSE <<>>)
             \o <<x>>
             \o (IF i + k < ahi /\ j + k < bhi
                 THEN matching_blocks(a, b, i + k, ahi, j + k, bhi) ELSE <<>>)

\* the blocks SequenceMatcher.get_matching_blocks collects, sorted
matching_blocks(a, b, alo, ahi, blo, bhi) ==
    CHOOSE blocks \in {blocks_around(a, b, alo, ahi, blo, bhi, x) :
                          x \in {find_longest_match(a, b, alo, ahi, blo, bhi)}} : TRUE

\* get_matching_blocks' merge of adjacent blocks; cur is (i1, j1, k1)
RECURSIVE non_adjacent(_, _)
non_adjacent(blocks, cur) ==
    IF blocks = <<>> THEN (IF cur[3] # 0 THEN <<cur>> ELSE <<>>)
    ELSE LET nxt == blocks[1]
         IN  IF cur[1] + cur[3] = nxt[1] /\ cur[2] + cur[3] = nxt[2]
             THEN non_adjacent(Tail(blocks), <<cur[1], cur[2], cur[3] + nxt[3]>>)
             ELSE (IF cur[3] # 0 THEN <<cur>> ELSE <<>>) \o non_adjacent(Tail(blocks), nxt)

get_matching_blocks(a, b) ==
    non_adjacent(matching_blocks(a, b, 0, Len(a), 0, Len(b)), <<0, 0, 0>>)
    \o <<<<Len(a), Len(b), 0>>>>

Opcode(tag, i1, i2, j1, j2) == [tag |-> tag, i1 |-> i1, i2 |-> i2, j1 |-> j1, j2 |-> j2]

\* SequenceMatcher.get_opcodes, from position (i, j) on
RECURSIVE opcodes_from(_, _, _)
opcodes_from(blocks, i, j) ==
    IF blocks = <<>> THEN <<>>
    ELSE LET ai == blocks[1][1]
             bj == blocks[1][2]
             size == blocks[1][3]
             tag == IF i < ai /\ j < bj THEN "replace"
                    ELSE IF i < ai THEN "delete"
                    ELSE IF j < bj THEN "insert"
                    ELSE ""
         IN  (IF tag # "" THEN <<Opcode(tag, i, ai, j, bj)>> ELSE <<>>)
             \o (IF size # 0 THEN <<Opcode("equal", ai, ai + size, bj, bj + size)>> ELSE <<>>)
             \o opcodes_from(Tail(blocks), ai + size, bj + size)

get_opcodes(a, b) == opcodes_from(get_matching_blocks(a, b), 0, 0)

\* the loop of get_grouped_opcodes: the groups yielded, group being the open one
RECURSIVE group_loop(_, _, _)
group_loop(codes, group, n) ==
    IF codes = <<>>
    THEN IF group # <<>> /\ ~(Len(group) = 1 /\ group[1].tag = "equal") THEN <<group>> ELSE <<>>
    ELSE LET c == codes[1]
         IN  IF c.tag = "equal" /\ c.i2 - c.i1 > n + n
             THEN <<Append(group, Opcode(c.tag, c.i1, Min(c.i2, c.i1 + n), c.j1, Min(c.j2, c.j1 + n)))>>
                  \o group_loop(Tail(codes),
                                <<Opcode(c.tag, Max(c.i1, c.i2 - n), c.i2, Max(c.j1, c.j2 - n), c.j2)>>,
                                n)
             ELSE group_loop(Tail(codes), Append(group, c), n)

\* the first opcode of get_grouped_opcodes, its leading context cut to n lines
trim_first(c, n) ==
    IF c.tag = "equal" THEN Opcode(c.tag, Max(c.i1, c.i2 - n), c.i2, Max(c.j1, c.j2 - n), c.j2)
    ELSE c

\* the last opcode of get_grouped_opcodes, its trailing context cut to n lines
trim_last(c, n) ==
    IF c.tag = "equal" THEN Opcode(c.tag, c.i1, Min(c.i2, c.i1 + n), c.j1, Min(c.j2, c.j1 + n))
    ELSE c

\* get_grouped_opcodes' groups of the opcodes codes0
grouped(codes0, n) ==
    LET codes1 == IF codes0 = <<>> THEN <<Opcode("equal", 0, 1, 0, 1)>> ELSE codes0
        codes2 == <<trim_first(codes1[1], n)>> \o Tail(codes1)
        codes3 == SubSeq(codes2, 1, Len(codes2) - 1) \o <<trim_last(codes2[Len(codes2)], n)>>
    IN  group_loop(codes3, <<>>, n)

\* SequenceMatcher.get_grouped_opcodes(n)
get_grouped_opcodes(a, b, n) ==
    CHOOSE groups \in {grouped(codes, n) : codes \in {get_opcodes(a, b)}} : TRUE

\* difflib._format_range_unified
_format_range_unified(start, stop) ==
    LET beginning == start + 1
        length == stop - start
    IN  IF length = 1 THEN ToDec(beginning)
        ELSE ToDec(IF length = 0 THEN beginning - 1 ELSE beginning) \o <<44>> \o ToDec(length)

prefixed(c, lines) == [i \in DOMAIN lines |-> <<c>> \o lines[i]]

RECURSIVE group_lines(_, _, _)
group_lines(group, a, b) ==
    IF group = <<>> THEN <<>>
    ELSE LET c == group[1]
         IN  (IF c.tag = "equal" THEN prefixed(32, SubSeq(a, c.i1 + 1, c.i2))
              ELSE (IF c.tag \in {"replace", "delete"}
                    THEN prefixed(45, SubSeq(a, c.i1 + 1, c.i2)) ELSE <<>>)
                   \o (IF c.tag \in {"replace", "insert"}
                       THEN prefixed(43, SubSeq(b, c.j1 + 1, c.j2)) ELSE <<>>))
             \o group_lines(Tail(group), a, b)

\* the '@@ -a,b +c,d @@' line of a group
hunk_range_line(group) ==
    LET first == group[1]
        last == group[Len(group)]
    IN  <<64, 64, 32, 45>> \o _format_range_unified(first.i1, last.i2)
        \o <<32, 43>> \o _format_range_unified(first.j1, last.j2) \o <<32, 64, 64>>

RECURSIVE hunks_lines(_, _, _)
hunks_lines(groups, a, b) ==
    IF groups = <<>> THEN <<>>
    ELSE <<hunk_range_line(groups[1])>> \o group_lines(groups[1], a, b)
         \o hunks_lines(Tail(groups), a, b)

\* the lines of unified_diff for the groups of get_grouped_opcodes
diff_lines(groups, a, b) ==
    IF groups = <<>> THEN <<>>
    ELSE << <<45, 45, 45, 32, 99, 117, 114, 114, 101, 110, 116>>,
            <<43, 43, 43, 32, 103, 101, 110, 101, 114, 97, 116, 101, 100>> >>
         \o hunks_lines(groups, a, b)

\* difflib.unified_diff(a, b, lineterm='', fromfile='current', tofile='generated', n=n)
unified_diff(a, b, n) ==
    CHOOSE lines \in {diff_lines(groups, a, b) : groups \in {get_grouped_opcodes(a, b, n)}} : TRUE

----------------------------------------------------------------------------
(* ciadmin.diff.textual_diff and show_diff *)

NContext == 8

IsDigit(c) == c >= 48 /\ c <= 57

\* the digits a string starts with
RECURSIVE leading_digits(_)
leading_digits(s) ==
    IF s # <<>> /\ IsDigit(s[1]) THEN <<s[1]>> \o leading_digits(Tail(s)) ELSE <<>>

\* context_re = '^@@ -([0-9]*),': the group, or "nomatch"
context_re_match(rangeInfo) ==
    IF Len(rangeInfo) >= 4 /\ SubSeq(rangeInfo, 1, 4) = <<64, 64, 32, 45>>
    THEN LET rest == SubSeq(rangeInfo, 5, Len(rangeInfo))
             digits == leading_digits(rest)
         IN  IF Len(rest) > Len(digits) /\ rest[Len(digits) + 1] = 44
             THEN [matched |-> TRUE, group |-> digits]
             ELSE [matched |-> FALSE, group |-> <<>>]
    ELSE [matched |-> FALSE, group |-> <<>>]

\* label_re = '^  ([^ ].*)': lines with exactly two spaces indentation
label_re_match(line) ==
    IF Len(line) >= 3 /\ line[1] = 32 /\ line[2] = 32 /\ line[3] # 32
    THEN [matched |-> TRUE, group |-> SubSeq(line, 3, Len(line))]
    ELSE [matched |-> FALSE, group |-> <<>>]

\* the while loop of contextualize reading left[line] before 'line -= 1'
RECURSIVE contextualize_loop_late_decrement(_, _, _)
contextualize_loop_late_decrement(line, left, resources_start) ==
    IF line > resources_start
    THEN LET match == label_re_match(IF line + 1 <= Len(left) THEN left[line + 1] ELSE <<>>)
         IN  IF match.matched THEN match.group
             ELSE contextualize_loop_late_decrement(line - 1, left, resources_start)
    ELSE <<>>

\* the while loop of contextualize; left[line] is Python's 0-based indexing
RECURSIVE contextualize_loop(_, _, _)
contextualize_loop(line, left, resources_start) ==
    IF line > resources_start
    THEN LET match == label_re_match(left[(line - 1) + 1])
         IN  IF match.matched THEN match.group
             ELSE contextualize_loop(line - 1, left, resources_start)
    ELSE <<>>

\* contextualize(rangeInfo), a closure over left and resources_start
contextualize(rangeInfo, left, resources_start) ==
    LET match == context_re_match(rangeInfo)
    IN  IF ~match.matched THEN <<>>
        ELSE contextualize_loop(ToInt(match.group), left, resources_start)

\* colors[l[0]](l).rstrip() for one line of the unified diff
colorize(line, left, resources_start) ==
    LET l == IF line # <<>> THEN line ELSE <<32>>
    IN  rstrip(CASE l[1] = 45 -> t_red(strip_ansi(l))
                 [] l[1] = 43 -> t_green(strip_ansi(l))
                 [] l[1] = 64 -> t_yellow(strip_ansi(l)) \o <<32>>
                                 \o contextualize(l, left, resources_start)
                 [] l[1] = 32 -> l)

\* list.index, 0-based
index_of(list, x) ==
    (CHOOSE i \in DOMAIN list : list[i] = x /\ \A j \in 1..(i - 1) : list[j] # x) - 1

\* the lines textual_diff returns for the renderings left and right
colorized_diff(left, right) ==
    LET resources_start == index_of(left, s_resources)
    IN  CHOOSE out \in {[i \in DOMAIN lines |-> colorize(lines[i], left, resources_start)] :
                           lines \in {unified_diff(left, right, NContext)}} : TRUE

\* textual_diff on the outcomes l and r of str(current) and str(generated)
diff_of_renderings(l, r) ==
    IF l.raised # NoError THEN [raised |-> l.raised, value |-> None]
    ELSE IF r.raised # NoError THEN [raised |-> r.raised, value |-> None]
    ELSE [raised |-> NoError, value |-> colorized_diff(l.value, r.value)]

\* textual_diff(generated, current): the exception raised, the lines returned
textual_diff(generated, current) ==
    CHOOSE out \in {diff_of_renderings(l, r) :
                       l \in {Resources_str(current.resources, current.managed)},
                       r \in {Resources_str(generated.resources, generated.managed)}} : TRUE

\* reg.search(s) for a pattern without metacharacters
re_search(reg, s) ==
    \E i \in 0..(Len(s) - Len(reg)) : SubSeq(s, i + 1, i + Len(reg)) = reg

\* the first exception of a list of results, NoError when there is none
first_raised(results) ==
    LET bad == {i \in DOMAIN results : results[i].raised # NoError}
    IN  IF bad = {} THEN NoError
        ELSE results[CHOOSE i \in bad : \A j \in bad : i <= j].raised

\* Resources(managed=c.managed, resources=(r for r in c.resources if reg.search(r.id)))
grep_resources(c, grep) ==
    Resources(SelectSeq(c.resources, LAMBDA r : re_search(grep, id(r))), c.managed)

\* Resources(managed=c.managed, resources=(r.evolve(description='') for r in c.resources))
blank_descriptions(c) ==
    LET evolved == [i \in DOMAIN c.resources |->
                       evolve(c.resources[i], [k \in {f_description} |-> s_empty])]
        e == first_raised(evolved)
    IN  IF e # NoError THEN [raised |-> e, resources |-> <<>>, managed |-> <<>>]
        ELSE Resources([i \in DOMAIN evolved |-> evolved[i].value], c.managed)

NotRaised(c) == [raised |-> NoError, resources |-> c.resources, managed |-> c.managed]

\* show_diff: the exception raised, the lines printed
show_diff(generated, current, ignore_descriptions, grep, ids_only) ==
    LET g1 == IF grep # <<>> THEN grep_resources(generated, grep) ELSE NotRaised(generated)
        c1 == IF grep # <<>> THEN grep_resources(current, grep) ELSE NotRaised(current)
        g2 == IF ignore_descriptions THEN blank_descriptions(g1) ELSE g1
        c2 == IF ignore_descriptions THEN blank_descriptions(c1) ELSE c1
    IN  IF g1.raised # NoError THEN [raised |-> g1.raised, value |-> None]
        ELSE IF c1.raised # NoError THEN [raised |-> c1.raised, value |-> None]
        ELSE IF g2.raised # NoError THEN [raised |-> g2.raised, value |-> None]
        ELSE IF c2.raised # NoError THEN [raised |-> c2.raised, value |-> None]
        ELSE IF ids_only THEN [raised |-> NoError, value |-> id_diff(g2, c2)]
        ELSE textual_diff(g2, c2)

----------------------------------------------------------------------------
(* The life of one Resources collection: construction, add, manage, and the *)
(* operations that read it                                                  *)

W(k, c, d) == [kind |-> Worker, vals |-> <<k, c, d>>]
S(n, v) == [kind |-> Secret, vals |-> <<n, v>>]

p_star == <<42>>
p_workers == Worker \o <<61, 42>>
p_worker1 == Worker \o <<61>> \o s_w1
p_secrets == Secret \o <<61, 42>>

ResourceUniverse == {W(s_w1, s_3, s_a), W(s_w1, s_5, s_a), W(s_w2, s_3, s_a), S(s_w1, s_a)}
PatternUniverse == {p_workers, p_worker1, p_secrets}

SeqsUpTo(U, n) == UNION {[1..k -> U] : k \in 0..n}

Collection(rs, ms) == [resources |-> rs, managed |-> ms]

\* the collection itself, as the diff functions see it
self == Collection(resources, managed)

\* the other collections the diff functions compare it with
Others == {Collection(<<>>, <<>>), Collection(<<W(s_w1, s_3, s_a)>>, <<p_workers>>)}

Init ==
    /\ pc = "new"
    /\ in_resources \in SeqsUpTo(ResourceUniverse, MaxInput)
    /\ in_managed \in SeqsUpTo(PatternUniverse, MaxPatterns)
    /\ resources = <<>>
    /\ managed = <<>>
    /\ op = ""
    /\ arg = <<>>
    /\ raised = NoError
    /\ returned = None
    /\ styling \in BOOLEAN
    /\ diff_generated = <<>>
    /\ diff_current = <<>>

\* Resources(in_resources, in_managed)
Construct ==
    /\ pc = "new"
    /\ LET c == Resources(in_resources, in_managed)
       IN  /\ raised' = c.raised
           /\ pc' = IF c.raised = NoError THEN "ready" ELSE "failed"
           /\ resources' = IF c.raised = NoError THEN c.resources ELSE <<>>
           /\ managed' = IF c.raised = NoError THEN c.managed ELSE <<>>
    /\ op' = "Resources"
    /\ arg' = Collection(in_resources, in_managed)
    /\ in_resources' = <<>>
    /\ in_managed' = <<>>
    /\ returned' = None
    /\ UNCHANGED <<styling, diff_generated, diff_current>>

add(resource) ==
    /\ pc = "ready"
    /\ Len(resources) < MaxResources
    /\ LET a == Resources_add(resources, managed, resource)
       IN  /\ raised' = a.raised
           /\ resources' = a.resources
    /\ op' = "add"
    /\ arg' = resource
    /\ returned' = None
    /\ UNCHANGED <<pc, in_resources, in_managed, managed, styling, diff_generated, diff_current>>

manage(pattern) ==
    /\ pc = "ready"
    /\ Len(managed) < MaxManaged
    /\ managed' = Resources_manage(managed, pattern)
    /\ op' = "manage"
    /\ arg' = pattern
    /\ raised' = NoError
    /\ returned' = None
    /\ UNCHANGED <<pc, in_resources, in_managed, resources, styling, diff_generated, diff_current>>

\* an operation that reads the collection and raises or returns
Reads(name, argument, result) ==
    /\ pc = "ready"
    /\ op' = name
    /\ arg' = argument
    /\ raised' = result.raised
    /\ returned' = result.value
    /\ UNCHANGED <<pc, in_resources, in_managed, resources, managed, styling, diff_generated, diff_current>>

ToJson == Reads("to_json", <<>>, Resources_to_json(resources, managed))

Str == Reads("__str__", <<>>, Resources_str(resources, managed))

\* Resources.from_json(self.to_json())
FromJson ==
    LET j == Resources_to_json(resources, managed)
    IN  /\ j.raised = NoError
        /\ LET c == Resources_from_json(j.value)
           IN  Reads("from_json", j.value, [raised |-> c.raised,
                                           value |-> Collection(c.resources, c.managed)])

IdDiff ==
    \E other \in Others, as_generated \in BOOLEAN :
        Reads("id_diff", <<other, as_generated>>,
              [raised |-> NoError,
               value |-> IF as_generated THEN id_diff(self, other) ELSE id_diff(other, self)])

TextualDiff ==
    \E other \in Others, as_generated \in BOOLEAN :
        Reads("textual_diff", <<other, as_generated>>,
              IF as_generated THEN textual_diff(self, other) ELSE textual_diff(other, self))

Next ==
    \/ Construct
    \/ \E resource \in ResourceUniverse : add(resource)
    \/ \E pattern \in PatternUniverse : manage(pattern)
    \/ ToJson
    \/ Str
    \/ FromJson
    \/ IdDiff
    \/ TextualDiff

Spec == Init /\ [][Next]_vars

----------------------------------------------------------------------------
(* Properties of the collection's life *)

\* the ids that two or more resources of rs have
DuplicatedIds(rs) ==
    {id(rs[i]) : i \in {i \in DOMAIN rs : \E j \in DOMAIN rs \ {i} : id(rs[j]) = id(rs[i])}}

\* the ids of rs that no pattern of ms matches
UnmanagedIds(rs, ms) ==
    {id(rs[i]) : i \in {i \in DOMAIN rs : \A k \in DOMAIN ms : ~PatternMatches(ms[k], id(rs[i]))}}

StrictlyAscending(ids) == \A i \in 1..(Len(ids) - 1) : StrLess(ids[i], ids[i + 1])

\* the (id, field values) pairs of a list of resources
Pairs(rs) == {<<id(rs[i]), asdict(rs[i])>> : i \in DOMAIN rs}

IdUniverse == {id(r) : r \in ResourceUniverse}

\* C1: after construction and any sequence of add and manage calls, no two
\* resources of the collection share an id.
C1_NoDuplicateIds == pc = "ready" => DuplicatedIds(resources) = {}

\* C2: every resource of a constructed collection has an id that some managed
\* pattern matches, whatever add and manage calls followed; add raises for a
\* resource whose id no pattern matches and leaves the collection alone, and
\* inserts any other; no step makes a managed id unmanaged.
C2_FullCoverage ==
    /\ [](pc = "ready" => UnmanagedIds(resources, managed) = {})
    /\ [][/\ op' = "add" =>
               IF is_managed(managed, id(arg'))
               THEN /\ raised' = NoError
                    /\ Len(resources') = Len(resources) + 1
                    /\ \E i \in DOMAIN resources' : resources'[i] = arg'
               ELSE /\ raised' = [msg |-> "unmanaged resource: ", ids |-> <<id(arg')>>]
                    /\ resources' = resources
          /\ pc = "ready" => \A i \in IdUniverse :
                                is_managed(managed, i) => is_managed(managed', i)]_vars

C2_Witness ==
    /\ op = "add"
    /\ raised.msg = "unmanaged resource: "
    /\ Len(resources) >= 1
    /\ Len(managed) = MaxManaged

\* C3: to_json, __str__, textual_diff and id_diff raise when the collection
\* holds two resources with one id or a resource with an unmanaged id.
C3_VerifiedBeforeOutput ==
    (/\ pc = "ready"
     /\ op \in {"to_json", "__str__", "textual_diff", "id_diff"}
     /\ (DuplicatedIds(resources) # {} \/ UnmanagedIds(resources, managed) # {}))
    => raised # NoError

\* C4: from_json(to_json()) of a valid collection succeeds and yields the same
\* (id, field values) pairs and the same managed patterns.
C4_RoundTrip ==
    op = "from_json" =>
        /\ raised = NoError
        /\ Pairs(returned.resources) = Pairs(resources)
        /\ Len(returned.resources) = Len(resources)
        /\ returned.managed = managed

C4_Witness ==
    /\ op = "from_json"
    /\ \E i, j \in DOMAIN resources : kind(resources[i]) # kind(resources[j])
    /\ Len(managed) >= 2

\* the exception is the duplicate-resources error listing the duplicated ids
\* of rs, each once, ascending
IsDuplicateError(e, rs) ==
    /\ e.msg = "duplicate resources: "
    /\ Range(e.ids) = DuplicatedIds(rs)
    /\ StrictlyAscending(e.ids)

\* the exception is the unmanaged-resources error listing the unmanaged ids
\* of rs, each once, ascending
IsUnmanagedError(e, rs, ms) ==
    /\ e.msg = "unmanaged resources: "
    /\ Range(e.ids) = UnmanagedIds(rs, ms)
    /\ StrictlyAscending(e.ids)

\* C5: when an id occurs two or more times, construction and verification fail
\* with the duplicate-resources error, whose message lists every duplicated id
\* once, in ascending order, and no other id.
C5_DuplicateError ==
    /\ (op = "Resources" /\ DuplicatedIds(arg.resources) # {})
          => pc = "failed" /\ IsDuplicateError(raised, arg.resources)
    /\ (pc = "ready" /\ op \in {"to_json", "__str__"} /\ DuplicatedIds(resources) # {})
          => IsDuplicateError(raised, resources)

C5_Witness ==
    /\ op = "Resources"
    /\ raised.msg = "duplicate resources: "
    /\ Len(raised.ids) = 2
    /\ Len(arg.resources) = 4

----------------------------------------------------------------------------
(* Diffing two collections *)

\* a description of several lines, and the same with another last line
s_long == <<49, 10, 50, 10, 51, 10, 52, 10, 53, 10, 54, 10, 55, 10, 56, 10, 57>>
s_long2 == <<49, 10, 50, 10, 51, 10, 52, 10, 53, 10, 54, 10, 55, 10, 56, 10, 48>>

\* the collections with at most one resource of each id out of U, managed by ms
CollectionsOf(U, ms) ==
    {Collection(SortedKeyList(sorted_rs), ms) :
        sorted_rs \in {q \in SeqsUpTo(U, Cardinality({id(r) : r \in U})) :
                          /\ DuplicatedIds(q) = {}
                          /\ \A i \in 1..(Len(q) - 1) : StrLess(id(q[i]), id(q[i + 1]))}}

DiffUniverse ==
    {W(s_w1, s_3, s_a), W(s_w1, s_5, s_a), W(s_w1, s_3, s_b), W(s_w1, s_5, s_b),
     W(s_w2, s_3, s_a), S(s_w1, s_a), S(s_w1, s_b)}

GrepUniverse == {<<>>, s_w1}

Idle ==
    /\ in_resources = <<>>
    /\ in_managed = <<>>
    /\ resources = <<>>
    /\ managed = <<>>
    /\ op = ""
    /\ arg = <<>>
    /\ raised = NoError
    /\ returned = None

InitDiff ==
    /\ pc = "diff"
    /\ Idle
    /\ styling \in BOOLEAN
    /\ diff_generated \in CollectionsOf(DiffUniverse, <<p_star>>)
    /\ diff_current \in CollectionsOf(DiffUniverse, <<p_star>>)

\* a call of a diff function on the two collections
Diffs(name, argument, result) ==
    /\ pc = "diff"
    /\ op' = name
    /\ arg' = argument
    /\ raised' = result.raised
    /\ returned' = result.value
    /\ UNCHANGED <<pc, in_resources, in_managed, resources, managed, styling,
                   diff_generated, diff_current>>

DiffIds ==
    Diffs("id_diff", <<>>, [raised |-> NoError, value |-> id_diff(diff_generated, diff_current)])

DiffTextual == Diffs("textual_diff", <<>>, textual_diff(diff_generated, diff_current))

ShowDiff ==
    \E ignore_descriptions \in BOOLEAN, grep \in GrepUniverse, ids_only \in BOOLEAN :
        Diffs("show_diff",
              [ignore_descriptions |-> ignore_descriptions, grep |-> grep, ids_only |-> ids_only],
              show_diff(diff_generated, diff_current, ignore_descriptions, grep, ids_only))

NextDiff == DiffIds \/ ShowDiff

SpecDiff == InitDiff /\ [][NextDiff]_vars

\* the resource of a valid collection that has id i
ResourceOf(c, i) == CHOOSE r \in Range(c.resources) : id(r) = i

IdsOf(c) == {id(r) : r \in Range(c.resources)}

\* the names of the fields whose values differ, two resources of one kind
DifferingFields(g, c) ==
    LET fields == KindFields(kind(g))
    IN  {fields[k] : k \in {k \in DOMAIN fields : g.vals[k] # c.vals[k]}}

\* the line C7 prescribes for id i, as a list of none or one
PrescribedLine(i, g, c) ==
    IF i \in IdsOf(g) /\ i \notin IdsOf(c) THEN <<t_green(<<43, 32>> \o i)>>
    ELSE IF i \in IdsOf(c) /\ i \notin IdsOf(g) THEN <<t_red(<<45, 32>> \o i)>>
    ELSE IF ResourceOf(g, i) = ResourceOf(c, i) THEN <<>>
    ELSE LET changed == <<32, 40, 99, 104, 97, 110, 103, 101, 100, 58, 32>>
             names == IF kind(ResourceOf(g, i)) # kind(ResourceOf(c, i)) THEN <<k_kind>>
                      ELSE sorted_set(DifferingFields(ResourceOf(g, i), ResourceOf(c, i)))
         IN  <<t_yellow(<<33, 32>> \o i \o changed \o join_comma(names) \o <<41>>)>>

RECURSIVE PrescribedLines(_, _, _)
PrescribedLines(ids, g, c) ==
    IF ids = <<>> THEN <<>>
    ELSE PrescribedLine(ids[1], g, c) \o PrescribedLines(Tail(ids), g, c)

Flipped(line) ==
    LET plain == strip_ansi(line)
    IN  IF plain[1] = 43 THEN t_red(<<45>> \o Tail(plain))
        ELSE IF plain[1] = 45 THEN t_green(<<43>> \o Tail(plain))
        ELSE line

\* C9: id_diff(B, A) is id_diff(A, B) with '+' and '-' exchanged and every '!'
\* line the same.
C9_AntiSymmetric ==
    op = "id_diff" =>
        id_diff(diff_current, diff_generated) = [i \in DOMAIN returned |-> Flipped(returned[i])]

C9_Witness ==
    /\ op = "id_diff"
    /\ \E i, j, k \in DOMAIN returned :
          /\ strip_ansi(returned[i])[1] = 43
          /\ strip_ansi(returned[j])[1] = 45
          /\ strip_ansi(returned[k])[1] = 33

\* the two collections hold the same ids and differ at most in the values of
\* the description fields
DifferOnlyInDescriptions(g, c) ==
    /\ IdsOf(g) = IdsOf(c)
    /\ \A i \in IdsOf(g) : DifferingFields(ResourceOf(g, i), ResourceOf(c, i)) \subseteq {f_description}

\* C10: with ignore_descriptions, show_diff completes for resources of every
\* kind, and its identity diff of two collections that differ only in
\* descriptions prints nothing.
C10_IgnoreDescriptions ==
    (/\ op = "show_diff"
     /\ arg.ignore_descriptions
     /\ arg.ids_only
     /\ arg.grep = <<>>
     /\ DifferOnlyInDescriptions(diff_generated, diff_current))
    => raised = NoError /\ returned = <<>>

----------------------------------------------------------------------------
(* The textual diff of two collections that differ in one field *)

TextUniverse ==
    {W(s_w1, s_3, s_a), W(s_w1, s_3, s_long), W(s_w2, s_3, s_a), W(s_w2, s_3, s_long),
     S(s_w1, s_a)}

TextManaged == {<<p_star>>, <<p_workers, p_secrets>>}

NewValues == {s_5, s_b, s_long2}

InitText ==
    /\ pc = "diff"
    /\ Idle
    /\ styling \in BOOLEAN
    /\ \E ms \in TextManaged : diff_current \in CollectionsOf(TextUniverse, ms)
    /\ \E i \in DOMAIN diff_current.resources :
          \E f \in 2..Len(diff_current.resources[i].vals), v \in NewValues :
              diff_generated = [diff_current EXCEPT !.resources[i].vals[f] = v]

NextText == DiffTextual

SpecText == InitText /\ [][NextText]_vars

StartsWith(s, prefix) == Len(s) >= Len(prefix) /\ SubSeq(s, 1, Len(prefix)) = prefix

EndsWith(s, suffix) ==
    Len(s) >= Len(suffix) /\ SubSeq(s, Len(s) - Len(suffix) + 1, Len(s)) = suffix

\* the renderings textual_diff compares
Left == Resources_str(diff_current.resources, diff_current.managed).value
Right == Resources_str(diff_generated.resources, diff_generated.managed).value

\* the 0-based index of the first line in which two renderings differ
FirstChangeOf(left, right) ==
    CHOOSE p \in 0..Len(left) :
        /\ \A q \in 1..p : q <= Len(right) /\ left[q] = right[q]
        /\ p = Len(left) \/ p >= Len(right) \/ left[p + 1] # right[p + 1]

\* the 0-based index of the first line of the hunk: NContext lines of context
HunkStart == Max(0, FirstChangeOf(Left, Right) - NContext)

\* the 0-based index of the 'resources:' line
AnchorOf(left) == CHOOSE i \in 0..(Len(left) - 1) : left[i + 1] = s_resources

\* the heading of a resource as rendered: its id, underlined, and a colon
HeadingText(r) == t_underline \o id(r) \o t_normal \o <<58>>

\* the 0-based indexes of the heading lines below the anchor, down to line hs
HeadingsDownTo(left, hs) ==
    {i \in (AnchorOf(left) + 1)..hs :
        \E r \in Range(diff_current.resources) : left[i + 1] = <<32, 32>> \o HeadingText(r)}

\* the headings between the anchor and the first line of the hunk
HeadingsAboveHunk == HeadingsDownTo(Left, HunkStart)

\* the resource whose field differs
Owner ==
    diff_current.resources[CHOOSE i \in DOMAIN diff_current.resources :
                               diff_current.resources[i] # diff_generated.resources[i]]

\* the heading nearest above the first line of the hunk, empty without one
NearestHeading ==
    LET above == HeadingsAboveHunk
    IN  IF above = {} THEN <<>>
        ELSE HeadingText(diff_current.resources[Cardinality(above)])

\* line is the hunk-range line of a hunk starting at HunkStart, labelled label
IsHunkLine(line, label) ==
    /\ StartsWith(strip_ansi(line), <<64, 64, 32, 45>> \o ToDec(HunkStart + 1) \o <<44>>)
    /\ EndsWith(line, <<32, 64, 64>> \o t_normal
                      \o (IF label = <<>> THEN <<>> ELSE <<32>> \o label))

HunkLines == {i \in DOMAIN returned : returned[i] # <<>> /\ strip_ansi(returned[i])[1] = 64}

\* C8 as stated: the hunk of two collections differing in one field is
\* labelled with the owning resource (its id as the rendering shows it, the
\* heading), wherever the resource sits; the label is empty only when no
\* resource line lies between the anchor and the start of the hunk.
C8_LabelIsOwner ==
    op = "textual_diff" =>
        /\ raised = NoError
        /\ HunkLines = {3}
        /\ IsHunkLine(returned[3], IF HeadingsAboveHunk = {} THEN <<>> ELSE HeadingText(Owner))

\* C8, amended: the label is the heading (the id, a colon, the terminal's
\* codes) nearest above the first line of the hunk, which lies NContext lines
\* above the first changed line; it is empty exactly when no heading lies
\* between the anchor and that line.
C8_LabelIsNearestHeading ==
    op = "textual_diff" =>
        /\ raised = NoError
        /\ HunkLines = {3}
        /\ IsHunkLine(returned[3], NearestHeading)

C8_Witness ==
    /\ op = "textual_diff"
    /\ pc = "diff"
    /\ Len(diff_current.resources) = 3
    /\ NearestHeading = HeadingText(Owner)
    /\ Owner = diff_current.resources[2]

====
